---- MODULE Spec2Model ----
(***************************************************************************)
(* Model of the ISDB-Benchmark block pipeline (read_file.c) and of its     *)
(* checksum engine (crc64_simple.c).                                       *)
(*                                                                         *)
(* The pipeline is async_sequential_read: an orchestrator thread, reader   *)
(* threads that claim block indices and enqueue blocks into a bounded      *)
(* queue, and consumer threads that dequeue blocks and fold their CRC64    *)
(* into global_hash_xor.  Every thread is a small program counter machine; *)
(* one action is one step between two synchronisation points (sem_wait,    *)
(* pthread_mutex_lock, the critical section up to and including the        *)
(* unlock, sem_post).                                                      *)
(***************************************************************************)
EXTENDS Integers, Sequences, FiniteSets, TLC

(***************************************************************************)
(* Sizes of the model.  The program's values (16 MiB blocks, a queue of    *)
(* 16, 4 readers, 4 consumers) are scaled down; the code is parametric in  *)
(* all of them.                                                            *)
(***************************************************************************)
BLOCK_SIZE == 2
MAX_QUEUE_SIZE == 2
NUM_READERS == 2
NUM_CONSUMERS == 2
MaxFileSize == 5
\* the number of entries of crc64_table[] in the model of crc64_init (256 in the code)
CRC64_TABLE_SIZE == 2
\* the number of threads that call into the CRC64 library at the same time
NUM_CALLERS == 2
\* the number of digests folded in the model of the combining operator
NumDigests == 3

Readers == 1..NUM_READERS
Consumers == 1..NUM_CONSUMERS

(***************************************************************************)
(* uint64_t values are sets of bit positions (bit b is set iff b is in     *)
(* the set), so that all 64 bits are kept.                                 *)
(***************************************************************************)
U64Zero == {}

U64Xor(a, b) == (a \ b) \cup (b \ a)

U64Shr(a, k) == {b - k : b \in {x \in a : x >= k}}

RECURSIVE Pow2(_)
Pow2(n) == IF n = 0 THEN 1 ELSE 2 * Pow2(n - 1)

\* a byte (0..255) widened to uint64_t
U64FromByte(n) == {b \in 0..7 : (n \div Pow2(b)) % 2 = 1}

RECURSIVE BitsValue(_)
BitsValue(s) ==
    IF s = {} THEN 0
    ELSE LET b == CHOOSE x \in s : TRUE IN Pow2(b) + BitsValue(s \ {b})

\* (x & 0xFF) as an array index
U64LowByte(a) == BitsValue(a \cap (0..7))

HexDigit(c) ==
    CASE c = "0" -> 0 [] c = "1" -> 1 [] c = "2" -> 2 [] c = "3" -> 3
      [] c = "4" -> 4 [] c = "5" -> 5 [] c = "6" -> 6 [] c = "7" -> 7
      [] c = "8" -> 8 [] c = "9" -> 9 [] c = "A" -> 10 [] c = "B" -> 11
      [] c = "C" -> 12 [] c = "D" -> 13 [] c = "E" -> 14 [] c = "F" -> 15

\* a 16-digit hexadecimal literal, most significant digit first
U64FromHex(digits) ==
    UNION {{4 * (16 - k) + b : b \in {x \in 0..3 : (HexDigit(digits[k]) \div Pow2(x)) % 2 = 1}}
           : k \in 1..16}

\* #define CRC64_POLY_ECMA 0x42F0E1EBA9EA3693ULL
CRC64_POLY_ECMA ==
    U64FromHex(<<"4","2","F","0","E","1","E","B","A","9","E","A","3","6","9","3">>)

\* the inner loop of crc64_init: j more rounds of shift-and-conditional-xor
RECURSIVE crc64_table_entry(_, _)
crc64_table_entry(crc, j) ==
    IF j = 0 THEN crc
    ELSE crc64_table_entry(
            IF 0 \in crc THEN U64Xor(U64Shr(crc, 1), CRC64_POLY_ECMA)
                         ELSE U64Shr(crc, 1),
            j - 1)

\* crc64_table[i] as crc64_init builds it
crc64_table(i) == crc64_table_entry(U64FromByte(i), 8)

\* crc64_update: data is a sequence of bytes, i the next position (1-based)
RECURSIVE crc64_update_from(_, _, _, _)
crc64_update_from(crc, data, len, i) ==
    IF i > len THEN crc
    ELSE crc64_update_from(
            U64Xor(crc64_table(U64LowByte(U64Xor(crc, U64FromByte(data[i])))),
                   U64Shr(crc, 8)),
            data, len, i + 1)

crc64_update(crc, data, len) == crc64_update_from(crc, data, len, 1)

crc64_compute(data, len) == crc64_update(U64Zero, data, len)


(***************************************************************************)
(* The input file: a byte pattern cut to a length of 0..MaxFileSize.       *)
(***************************************************************************)
FileByte(p) == (p * 73 + 41) % 256

Files == {[p \in 1..n |-> FileByte(p)] : n \in 0..MaxFileSize}

\* fread of len bytes at a byte offset (0-based) of the file f
FileRange(f, offset, len) == [k \in 1..len |-> f[offset + k]]

\* every buffer content a read of at most BLOCK_SIZE bytes can deliver
BlockData ==
    {[k \in 1..n |-> FileByte(off + k)] : off \in 0..MaxFileSize, n \in 0..BLOCK_SIZE}

\* crc64_compute of every such buffer, evaluated once
crc64_of_data == {<<d, crc64_compute(d, Len(d))>> : d \in BlockData}

\* uint64_t block_hash = crc64_compute(data, size)
BlockHash(data, size) == (CHOOSE p \in crc64_of_data : p[1] = data /\ Len(p[1]) = size)[2]

NoThread == <<"none", 0>>
Orch == <<"orch", 0>>
RThread(r) == <<"reader", r>>
CThread(c) == <<"consumer", c>>

NoBlock == [idx |-> -1, data |-> <<>>, size |-> 0]

\* every block index a file of the model can have
BlockIds == 0..MaxFileSize

VARIABLES
    file,             \* the bytes of the input file
    opc, oi,          \* async_sequential_read: position and loop index i
    final_hash,       \* the value printed as "Hash (XOR)"
    nodes,            \* the list head .. tail of BufferNode
    count,            \* queue->count
    mutex,            \* holder of queue->mutex
    empty_slots,      \* value of the semaphore queue->empty_slots
    full_slots,       \* value of the semaphore queue->full_slots
    reading_done, active_readers,
    total_blocks, next_block, file_size,
    destroyed,        \* cleanup_buffer_queue has run on the queue
    global_hash_xor, hash_mutex,
    rpc,              \* position of each reader thread
    rblock,           \* reader locals: block_index, read_buffer, bytes_read
    cpc,              \* position of each consumer thread
    cdata,            \* consumer locals: data, size
    claims,           \* history: the <<reader, index>> claims, in order
    handed,           \* history: indices passed to enqueue_buffer
    appended,         \* history: indices appended to the list, in order
    removed,          \* history: indices removed from the list, in order
    folds,            \* history: how often each index was folded into global_hash_xor
    sfunc,            \* read_file: the function that is running
    spc, si, soffset, \* that function's position, loop index i and file offset
    hash_xor,         \* that function's local hash_xor
    printed,          \* the "Hash (XOR)" value each function has printed
    visited,          \* history: <<offset, size>> of the blocks the function hashed
    crc64_initialized,\* crc64_simple.c: the flag
    table_set,        \* crc64_simple.c: the entries of crc64_table[] that hold their value
    kpc, ki,          \* callers of the CRC64 library: position and loop index i
    builders,         \* history: the callers that wrote crc64_table[]
    digests, folded,  \* a sequence of digests, and the positions already folded
    acc               \* the accumulator they are folded into

qvars == <<nodes, count, empty_slots, full_slots>>
doneVars == <<reading_done, active_readers>>
partVars == <<total_blocks, next_block, file_size>>
hashVars == <<global_hash_xor, hash_mutex>>
orchVars == <<opc, oi, final_hash>>
readerVars == <<rpc, rblock>>
consumerVars == <<cpc, cdata>>
histVars == <<claims, handed, appended, removed, folds>>
stratVars == <<sfunc, spc, si, soffset, hash_xor, printed, visited>>
crcVars == <<crc64_initialized, table_set, kpc, ki, builders>>
xorVars == <<digests, folded, acc>>

\* the state that no step of async_sequential_read and its threads touches
outside == <<stratVars, crcVars, xorVars>>

vars == <<file, opc, oi, final_hash, nodes, count, mutex, empty_slots, full_slots,
          reading_done, active_readers, total_blocks, next_block, file_size,
          destroyed, global_hash_xor, hash_mutex, rpc, rblock, cpc, cdata,
          claims, handed, appended, removed, folds,
          sfunc, spc, si, soffset, hash_xor, printed, visited,
          crc64_initialized, table_set, kpc, ki, builders,
          digests, folded, acc>>

\* the four single-threaded functions of read_file, in the order it calls them
Strategies == <<"sequential_read", "random_read", "sequential_mmap", "random_mmap">>

StrategyNames == {Strategies[k] : k \in DOMAIN Strategies}

\* the value of printed[f] while f has printed nothing
NoResult == {-1}

\* every digest the model of the combining operator folds
Digests ==
    {U64Zero, 0..63, {0}, {63}, CRC64_POLY_ECMA,
     crc64_table(1), crc64_table(255)}

(***************************************************************************)
(* The state when async_sequential_read is entered.  The queue fields are  *)
(* shown with the values init_buffer_queue gives them.                     *)
(***************************************************************************)
InitAsync ==
    /\ file \in Files
    /\ opc = "idle" /\ oi = 0 /\ final_hash = U64Zero
    /\ nodes = <<>> /\ count = 0 /\ mutex = NoThread
    /\ empty_slots = MAX_QUEUE_SIZE /\ full_slots = 0
    /\ reading_done = 0 /\ active_readers = 0
    /\ total_blocks = 0 /\ next_block = 0 /\ file_size = 0
    /\ destroyed = FALSE
    /\ global_hash_xor = U64Zero /\ hash_mutex = NoThread
    /\ rpc = [r \in Readers |-> "unborn"]
    /\ rblock = [r \in Readers |-> NoBlock]
    /\ cpc = [c \in Consumers |-> "unborn"]
    /\ cdata = [c \in Consumers |-> NoBlock]
    /\ claims = <<>> /\ handed = {} /\ appended = <<>> /\ removed = <<>>
    /\ folds = [i \in BlockIds |-> 0]

\* none of the single-threaded functions has run
InitStrategies ==
    /\ spc = "entry" /\ si = 0 /\ soffset = 0
    /\ hash_xor = U64Zero
    /\ printed = [f \in StrategyNames |-> NoResult]
    /\ visited = <<>>

\* crc64_simple.c as loaded: the flag is 0 and no thread is inside the library
InitCrc ==
    /\ crc64_initialized = 0
    /\ table_set = {}
    /\ kpc = [t \in 1..NUM_CALLERS |-> "idle"]
    /\ ki = [t \in 1..NUM_CALLERS |-> 0]
    /\ builders = {}

\* no digest is being folded
InitNoDigests == digests = <<>> /\ folded = {} /\ acc = U64Zero

\* async_sequential_read called on its own
Init ==
    /\ InitAsync
    /\ sfunc = "async_sequential_read" /\ InitStrategies
    /\ InitCrc
    /\ InitNoDigests


(***************************************************************************)
(* async_sequential_read, the orchestrator.                                *)
(***************************************************************************)

\* setup_hashing() called while no other thread runs: crc64_init builds the
\* table and sets the flag, or finds the flag set and returns
setup_hashing ==
    /\ crc64_initialized' = 1
    /\ table_set' = IF crc64_initialized = 0 THEN 0..(CRC64_TABLE_SIZE - 1) ELSE table_set

\* get_file_size fails: the file cannot be opened, or it is empty
OrchGetFileSizeFail ==
    /\ opc = "idle"
    /\ opc' = "returned_early"
    /\ UNCHANGED <<file, outside, oi, final_hash, qvars, mutex, doneVars, partVars, destroyed,
                   hashVars, readerVars, consumerVars, histVars>>

\* NumBlocks without the rounding up
NumBlocks_Floor(fsize) == fsize \div BLOCK_SIZE

\* queue.total_blocks = (file_size + BLOCK_SIZE - 1) / BLOCK_SIZE
NumBlocks(fsize) == (fsize + BLOCK_SIZE - 1) \div BLOCK_SIZE

\* OrchSetup without get_file_size's test of *file_size == 0
OrchSetup_NoSizeCheck ==
    /\ opc = "idle"
    /\ nodes' = <<>> /\ count' = 0
    /\ reading_done' = 0 /\ active_readers' = 0
    /\ mutex' = NoThread
    /\ empty_slots' = MAX_QUEUE_SIZE /\ full_slots' = 0
    /\ global_hash_xor' = U64Zero
    /\ file_size' = Len(file)
    /\ total_blocks' = NumBlocks(Len(file))
    /\ next_block' = 0
    /\ setup_hashing
    /\ opc' = "spawn_consumers" /\ oi' = 1
    /\ UNCHANGED <<file, stratVars, xorVars, kpc, ki, builders, final_hash, destroyed,
                   hash_mutex, readerVars, consumerVars, histVars>>

\* get_file_size succeeds; init_buffer_queue, setup_hashing and the setup lines
OrchSetup ==
    /\ opc = "idle"
    /\ Len(file) > 0
    /\ nodes' = <<>> /\ count' = 0
    /\ reading_done' = 0 /\ active_readers' = 0
    /\ mutex' = NoThread
    /\ empty_slots' = MAX_QUEUE_SIZE /\ full_slots' = 0
    /\ global_hash_xor' = U64Zero
    /\ file_size' = Len(file)
    /\ total_blocks' = NumBlocks(Len(file))
    /\ next_block' = 0
    /\ setup_hashing
    /\ opc' = "spawn_consumers" /\ oi' = 1
    /\ UNCHANGED <<file, stratVars, xorVars, kpc, ki, builders, final_hash, destroyed,
                   hash_mutex, readerVars, consumerVars, histVars>>

\* after the last pthread_create of a loop: the next loop, or the next iteration
AfterConsumerSpawn == IF oi = NUM_CONSUMERS THEN "set_active" ELSE "spawn_consumers"

\* pthread_create(&consumer_threads[i], ..., process_buffers, &queue) succeeds
OrchSpawnConsumer ==
    /\ opc = "spawn_consumers"
    /\ cpc' = [cpc EXCEPT ![oi] = "check_lock"]
    /\ opc' = AfterConsumerSpawn
    /\ oi' = IF oi = NUM_CONSUMERS THEN 0 ELSE oi + 1
    /\ UNCHANGED <<file, outside, final_hash, qvars, mutex, doneVars, partVars, destroyed,
                   hashVars, readerVars, cdata, histVars>>

\* pthread_create of a consumer fails: cleanup_buffer_queue(&queue); return
OrchSpawnConsumerFail ==
    /\ opc = "spawn_consumers"
    /\ opc' = "aborted"
    /\ nodes' = <<>>
    /\ destroyed' = TRUE
    /\ UNCHANGED <<file, outside, oi, final_hash, count, empty_slots, full_slots, mutex,
                   doneVars, partVars, hashVars, readerVars, consumerVars, histVars>>

\* t0 = timer_start(); queue.active_readers = NUM_READERS
OrchSetActiveReaders ==
    /\ opc = "set_active"
    /\ active_readers' = NUM_READERS
    /\ opc' = "spawn_readers" /\ oi' = 1
    /\ UNCHANGED <<file, outside, final_hash, qvars, mutex, reading_done, partVars, destroyed,
                   hashVars, readerVars, consumerVars, histVars>>

AfterReaderSpawn == IF oi = NUM_READERS THEN "join_readers" ELSE "spawn_readers"

\* pthread_create(&reader_threads[i], ..., reader_thread, args) succeeds
OrchSpawnReader ==
    /\ opc = "spawn_readers"
    /\ rpc' = [rpc EXCEPT ![oi] = "start"]
    /\ opc' = AfterReaderSpawn
    /\ oi' = IF oi = NUM_READERS THEN 1 ELSE oi + 1
    /\ UNCHANGED <<file, outside, final_hash, qvars, mutex, doneVars, partVars, destroyed,
                   hashVars, rblock, consumerVars, histVars>>

\* pthread_create of a reader fails: the orchestrator goes on to take the mutex
OrchSpawnReaderFail ==
    /\ opc = "spawn_readers"
    /\ rpc' = [rpc EXCEPT ![oi] = "nothread"]
    /\ opc' = "spawn_fail_lock"
    /\ UNCHANGED <<file, outside, oi, final_hash, qvars, mutex, doneVars, partVars, destroyed,
                   hashVars, rblock, consumerVars, histVars>>

\* pthread_mutex_lock(&queue.mutex) on the failed-spawn path
OrchSpawnFailLock ==
    /\ opc = "spawn_fail_lock"
    /\ mutex = NoThread
    /\ mutex' = Orch
    /\ opc' = "spawn_fail_dec"
    /\ UNCHANGED <<file, outside, oi, final_hash, qvars, doneVars, partVars, destroyed,
                   hashVars, readerVars, consumerVars, histVars>>

\* queue.active_readers--; pthread_mutex_unlock; free(args)
OrchSpawnFailDec ==
    /\ opc = "spawn_fail_dec"
    /\ active_readers' = active_readers - 1
    /\ mutex' = NoThread
    /\ opc' = AfterReaderSpawn
    /\ oi' = IF oi = NUM_READERS THEN 1 ELSE oi + 1
    /\ UNCHANGED <<file, outside, final_hash, qvars, reading_done, partVars, destroyed,
                   hashVars, readerVars, consumerVars, histVars>>

AfterReaderJoin == IF oi = NUM_READERS THEN "wake" ELSE "join_readers"

\* pthread_join(reader_threads[i], NULL) returns: the reader has exited
OrchJoinReader ==
    /\ opc = "join_readers"
    /\ rpc[oi] = "exited"
    /\ opc' = AfterReaderJoin
    /\ oi' = IF oi = NUM_READERS THEN 1 ELSE oi + 1
    /\ UNCHANGED <<file, outside, final_hash, qvars, mutex, doneVars, partVars, destroyed,
                   hashVars, readerVars, consumerVars, histVars>>

\* pthread_join on a pthread_t that a failed pthread_create left undefined:
\* the call returns an error at once, or the process does not survive it
OrchJoinReaderUndefined ==
    /\ opc = "join_readers"
    /\ rpc[oi] = "nothread"
    /\ \/ opc' = AfterReaderJoin /\ oi' = (IF oi = NUM_READERS THEN 1 ELSE oi + 1)
       \/ opc' = "crashed" /\ oi' = oi
    /\ UNCHANGED <<file, outside, final_hash, qvars, mutex, doneVars, partVars, destroyed,
                   hashVars, readerVars, consumerVars, histVars>>

\* OrchWake without its sem_post: the consumers are never woken for the drain
OrchWake_NoPost ==
    /\ opc = "wake"
    /\ opc' = IF oi = NUM_CONSUMERS THEN "join_consumers" ELSE "wake"
    /\ oi' = IF oi = NUM_CONSUMERS THEN 1 ELSE oi + 1
    /\ UNCHANGED <<file, outside, final_hash, qvars, mutex, doneVars,
                   partVars, destroyed, hashVars, readerVars, consumerVars, histVars>>

\* sem_post(&queue.full_slots), once per consumer
OrchWake ==
    /\ opc = "wake"
    /\ full_slots' = full_slots + 1
    /\ opc' = IF oi = NUM_CONSUMERS THEN "join_consumers" ELSE "wake"
    /\ oi' = IF oi = NUM_CONSUMERS THEN 1 ELSE oi + 1
    /\ UNCHANGED <<file, outside, final_hash, nodes, count, empty_slots, mutex, doneVars,
                   partVars, destroyed, hashVars, readerVars, consumerVars, histVars>>

\* pthread_join(consumer_threads[i], NULL) returns
OrchJoinConsumer ==
    /\ opc = "join_consumers"
    /\ cpc[oi] = "exited"
    /\ opc' = IF oi = NUM_CONSUMERS THEN "report" ELSE "join_consumers"
    /\ oi' = IF oi = NUM_CONSUMERS THEN 0 ELSE oi + 1
    /\ UNCHANGED <<file, outside, final_hash, qvars, mutex, doneVars, partVars, destroyed,
                   hashVars, readerVars, consumerVars, histVars>>

\* uint64_t final_hash = global_hash_xor; the result lines are printed
OrchReport ==
    /\ opc = "report"
    /\ final_hash' = global_hash_xor
    /\ opc' = "cleanup"
    /\ UNCHANGED <<file, outside, oi, qvars, mutex, doneVars, partVars, destroyed,
                   hashVars, readerVars, consumerVars, histVars>>

\* cleanup_buffer_queue(&queue): frees the remaining nodes, destroys mutex and semaphores
OrchCleanup ==
    /\ opc = "cleanup"
    /\ nodes' = <<>>
    /\ destroyed' = TRUE
    /\ opc' = "done"
    /\ UNCHANGED <<file, outside, oi, final_hash, count, empty_slots, full_slots, mutex,
                   doneVars, partVars, hashVars, readerVars, consumerVars, histVars>>


(***************************************************************************)
(* reader_thread, with the enqueue_buffer call it makes.                   *)
(***************************************************************************)

\* fopen and malloc(BLOCK_SIZE) both succeed
ReaderStart(r) ==
    /\ rpc[r] = "start"
    /\ rpc' = [rpc EXCEPT ![r] = "claim_lock"]
    /\ UNCHANGED <<file, outside, orchVars, qvars, mutex, doneVars, partVars, destroyed,
                   hashVars, rblock, consumerVars, histVars>>

\* fopen returns NULL
ReaderOpenFail(r) ==
    /\ rpc[r] = "start"
    /\ rpc' = [rpc EXCEPT ![r] = "fail_lock"]
    /\ UNCHANGED <<file, outside, orchVars, qvars, mutex, doneVars, partVars, destroyed,
                   hashVars, rblock, consumerVars, histVars>>

\* malloc(BLOCK_SIZE) returns NULL; fclose(file)
ReaderAllocFail(r) ==
    /\ rpc[r] = "start"
    /\ rpc' = [rpc EXCEPT ![r] = "fail_lock"]
    /\ UNCHANGED <<file, outside, orchVars, qvars, mutex, doneVars, partVars, destroyed,
                   hashVars, rblock, consumerVars, histVars>>

\* pthread_mutex_lock on either early-exit path
ReaderFailLock(r) ==
    /\ rpc[r] = "fail_lock"
    /\ mutex = NoThread
    /\ mutex' = RThread(r)
    /\ rpc' = [rpc EXCEPT ![r] = "fail_dec"]
    /\ UNCHANGED <<file, outside, orchVars, qvars, doneVars, partVars, destroyed,
                   hashVars, rblock, consumerVars, histVars>>

\* active_readers--; pthread_mutex_unlock; free(args); return NULL
ReaderFailDec(r) ==
    /\ rpc[r] = "fail_dec"
    /\ active_readers' = active_readers - 1
    /\ mutex' = NoThread
    /\ rpc' = [rpc EXCEPT ![r] = "exited"]
    /\ UNCHANGED <<file, outside, orchVars, qvars, reading_done, partVars, destroyed,
                   hashVars, rblock, consumerVars, histVars>>

\* pthread_mutex_lock at the top of the claim loop
ReaderClaimLock(r) ==
    /\ rpc[r] = "claim_lock"
    /\ mutex = NoThread
    /\ mutex' = RThread(r)
    /\ rpc' = [rpc EXCEPT ![r] = "claim"]
    /\ UNCHANGED <<file, outside, orchVars, qvars, doneVars, partVars, destroyed,
                   hashVars, rblock, consumerVars, histVars>>

\* ReaderClaim with > in place of >= in the test that ends the loop
ReaderClaim_OffByOne(r) ==
    /\ rpc[r] = "claim"
    /\ mutex' = NoThread
    /\ IF next_block > total_blocks
       THEN /\ rpc' = [rpc EXCEPT ![r] = "exit_lock"]
            /\ UNCHANGED <<next_block, rblock, claims>>
       ELSE /\ next_block' = next_block + 1
            /\ rblock' = [rblock EXCEPT ![r] = [NoBlock EXCEPT !.idx = next_block]]
            /\ claims' = Append(claims, <<r, next_block>>)
            /\ rpc' = [rpc EXCEPT ![r] = "read"]
    /\ UNCHANGED <<file, outside, orchVars, qvars, doneVars, total_blocks, file_size, destroyed,
                   hashVars, consumerVars, handed, appended, removed, folds>>

\* the claim: next_block >= total_blocks breaks, else block_index = next_block++
ReaderClaim(r) ==
    /\ rpc[r] = "claim"
    /\ mutex' = NoThread
    /\ IF next_block >= total_blocks
       THEN /\ rpc' = [rpc EXCEPT ![r] = "exit_lock"]
            /\ UNCHANGED <<next_block, rblock, claims>>
       ELSE /\ next_block' = next_block + 1
            /\ rblock' = [rblock EXCEPT ![r] = [NoBlock EXCEPT !.idx = next_block]]
            /\ claims' = Append(claims, <<r, next_block>>)
            /\ rpc' = [rpc EXCEPT ![r] = "read"]
    /\ UNCHANGED <<file, outside, orchVars, qvars, doneVars, total_blocks, file_size, destroyed,
                   hashVars, consumerVars, handed, appended, removed, folds>>

\* size_t offset = block_index * BLOCK_SIZE
BlockOffset(block_index) == block_index * BLOCK_SIZE

\* bytes_to_read: BLOCK_SIZE, or what is left of the file
BytesToRead(block_index, fsize) ==
    IF BlockOffset(block_index) + BLOCK_SIZE > fsize
    THEN fsize - BlockOffset(block_index)
    ELSE BLOCK_SIZE

\* the reader goes into enqueue_buffer with bytes_read bytes of its block
ReaderTakes(r, bytes_read) ==
    /\ rblock' = [rblock EXCEPT ![r] =
           [idx |-> rblock[r].idx,
            data |-> FileRange(file, BlockOffset(rblock[r].idx), bytes_read),
            size |-> bytes_read]]
    /\ handed' = handed \cup {rblock[r].idx}
    /\ rpc' = [rpc EXCEPT ![r] = "enq_wait"]

\* fseek and fread deliver all bytes_to_read bytes
ReaderRead(r) ==
    /\ rpc[r] = "read"
    /\ ReaderTakes(r, BytesToRead(rblock[r].idx, file_size))
    /\ UNCHANGED <<file, outside, orchVars, qvars, mutex, doneVars, partVars, destroyed,
                   hashVars, consumerVars, claims, appended, removed, folds>>

\* ReaderShortRead with a break for every read of fewer bytes than asked for
ReaderShortRead_Break(r) ==
    /\ rpc[r] = "read"
    /\ \E n \in 1..(BytesToRead(rblock[r].idx, file_size) - 1) :
          rblock' = [rblock EXCEPT ![r] =
              [idx |-> rblock[r].idx,
               data |-> FileRange(file, BlockOffset(rblock[r].idx), n),
               size |-> n]]
    /\ rpc' = [rpc EXCEPT ![r] = "exit_lock"]
    /\ UNCHANGED <<file, outside, orchVars, qvars, mutex, doneVars, partVars, destroyed,
                   hashVars, consumerVars, histVars>>

\* fread delivers fewer bytes than asked for, but at least one
ReaderShortRead(r) ==
    /\ rpc[r] = "read"
    /\ \E n \in 1..(BytesToRead(rblock[r].idx, file_size) - 1) : ReaderTakes(r, n)
    /\ UNCHANGED <<file, outside, orchVars, qvars, mutex, doneVars, partVars, destroyed,
                   hashVars, consumerVars, claims, appended, removed, folds>>

\* fseek fails, or fread delivers 0 bytes: break
ReaderReadNothing(r) ==
    /\ rpc[r] = "read"
    /\ rblock' = [rblock EXCEPT ![r] = NoBlock]
    /\ rpc' = [rpc EXCEPT ![r] = "exit_lock"]
    /\ UNCHANGED <<file, outside, orchVars, qvars, mutex, doneVars, partVars, destroyed,
                   hashVars, consumerVars, histVars>>

\* EnqueueSemWait without the sem_wait: the producer never waits for a free slot
EnqueueSemWait_NoWait(r) ==
    /\ rpc[r] = "enq_wait"
    /\ rpc' = [rpc EXCEPT ![r] = "enq_lock"]
    /\ UNCHANGED <<file, outside, orchVars, qvars, mutex, doneVars, partVars,
                   destroyed, hashVars, rblock, consumerVars, histVars>>

\* enqueue_buffer: sem_wait(&queue->empty_slots)
EnqueueSemWait(r) ==
    /\ rpc[r] = "enq_wait"
    /\ empty_slots > 0
    /\ empty_slots' = empty_slots - 1
    /\ rpc' = [rpc EXCEPT ![r] = "enq_lock"]
    /\ UNCHANGED <<file, outside, orchVars, nodes, count, full_slots, mutex, doneVars, partVars,
                   destroyed, hashVars, rblock, consumerVars, histVars>>

\* enqueue_buffer: pthread_mutex_lock(&queue->mutex)
EnqueueLock(r) ==
    /\ rpc[r] = "enq_lock"
    /\ mutex = NoThread
    /\ mutex' = RThread(r)
    /\ rpc' = [rpc EXCEPT ![r] = "enq_body"]
    /\ UNCHANGED <<file, outside, orchVars, qvars, doneVars, partVars, destroyed,
                   hashVars, rblock, consumerVars, histVars>>

\* enqueue_buffer: both mallocs succeed; the node is linked at the tail; unlock
EnqueueAppend(r) ==
    /\ rpc[r] = "enq_body"
    /\ nodes' = Append(nodes, rblock[r])
    /\ count' = count + 1
    /\ mutex' = NoThread
    /\ appended' = Append(appended, rblock[r].idx)
    /\ rpc' = [rpc EXCEPT ![r] = "enq_post"]
    /\ UNCHANGED <<file, outside, orchVars, empty_slots, full_slots, doneVars, partVars,
                   destroyed, hashVars, rblock, consumerVars, claims, handed, removed,
                   folds>>

\* enqueue_buffer: malloc of the node or of its data fails; unlock
EnqueueAllocFail(r) ==
    /\ rpc[r] = "enq_body"
    /\ mutex' = NoThread
    /\ rpc' = [rpc EXCEPT ![r] = "enq_fail_post"]
    /\ UNCHANGED <<file, outside, orchVars, qvars, doneVars, partVars, destroyed,
                   hashVars, rblock, consumerVars, histVars>>

\* enqueue_buffer: sem_post(&queue->full_slots); return 1; the loop goes round
EnqueuePost(r) ==
    /\ rpc[r] = "enq_post"
    /\ full_slots' = full_slots + 1
    /\ rblock' = [rblock EXCEPT ![r] = NoBlock]
    /\ rpc' = [rpc EXCEPT ![r] = "claim_lock"]
    /\ UNCHANGED <<file, outside, orchVars, nodes, count, empty_slots, mutex, doneVars,
                   partVars, destroyed, hashVars, consumerVars, histVars>>

\* EnqueueFailPost without its sem_post: the unit taken by sem_wait is kept
EnqueueFailPost_NoPost(r) ==
    /\ rpc[r] = "enq_fail_post"
    /\ rblock' = [rblock EXCEPT ![r] = NoBlock]
    /\ rpc' = [rpc EXCEPT ![r] = "claim_lock"]
    /\ UNCHANGED <<file, outside, orchVars, qvars, mutex, doneVars,
                   partVars, destroyed, hashVars, consumerVars, histVars>>

\* enqueue_buffer: sem_post(&queue->empty_slots); return 0, which reader_thread
\* does not look at; the loop goes round
EnqueueFailPost(r) ==
    /\ rpc[r] = "enq_fail_post"
    /\ empty_slots' = empty_slots + 1
    /\ rblock' = [rblock EXCEPT ![r] = NoBlock]
    /\ rpc' = [rpc EXCEPT ![r] = "claim_lock"]
    /\ UNCHANGED <<file, outside, orchVars, nodes, count, full_slots, mutex, doneVars,
                   partVars, destroyed, hashVars, consumerVars, histVars>>

\* after the loop: free, fclose, pthread_mutex_lock
ReaderExitLock(r) ==
    /\ rpc[r] = "exit_lock"
    /\ mutex = NoThread
    /\ mutex' = RThread(r)
    /\ rpc' = [rpc EXCEPT ![r] = "exit_dec"]
    /\ UNCHANGED <<file, outside, orchVars, qvars, doneVars, partVars, destroyed,
                   hashVars, rblock, consumerVars, histVars>>

\* ReaderExitDec setting reading_done whatever active_readers has become
ReaderExitDec_AlwaysDone(r) ==
    /\ rpc[r] = "exit_dec"
    /\ active_readers' = active_readers - 1
    /\ reading_done' = 1
    /\ mutex' = NoThread
    /\ rpc' = [rpc EXCEPT ![r] = "exited"]
    /\ UNCHANGED <<file, outside, orchVars, qvars, partVars, destroyed,
                   hashVars, rblock, consumerVars, histVars>>

\* active_readers--; if it is now 0, reading_done = 1; unlock; return NULL
ReaderExitDec(r) ==
    /\ rpc[r] = "exit_dec"
    /\ active_readers' = active_readers - 1
    /\ reading_done' = IF active_readers - 1 = 0 THEN 1 ELSE reading_done
    /\ mutex' = NoThread
    /\ rpc' = [rpc EXCEPT ![r] = "exited"]
    /\ UNCHANGED <<file, outside, orchVars, qvars, partVars, destroyed,
                   hashVars, rblock, consumerVars, histVars>>

(***************************************************************************)
(* process_buffers, with dequeue_buffer and process_buffer_data.           *)
(***************************************************************************)

\* process_buffers: pthread_mutex_lock at the top of the loop
ConsumerCheckLock(c) ==
    /\ cpc[c] = "check_lock"
    /\ mutex = NoThread
    /\ mutex' = CThread(c)
    /\ cpc' = [cpc EXCEPT ![c] = "check"]
    /\ UNCHANGED <<file, outside, orchVars, qvars, doneVars, partVars, destroyed,
                   hashVars, readerVars, cdata, histVars>>

\* ProcessDone without the test of count
ProcessDone_NoCount == reading_done # 0 /\ active_readers = 0

\* ProcessDone without the test of reading_done
ProcessDone_NoFlag == active_readers = 0 /\ count = 0

\* int done = reading_done && active_readers == 0 && count == 0
ProcessDone == reading_done # 0 /\ active_readers = 0 /\ count = 0

\* ConsumerCheck without the unlock before dequeue_buffer is called
ConsumerCheck_NoUnlock(c) ==
    /\ cpc[c] = "check"
    /\ mutex' = IF ProcessDone THEN NoThread ELSE mutex
    /\ cpc' = [cpc EXCEPT ![c] = IF ProcessDone THEN "exited" ELSE "deq_wait"]
    /\ UNCHANGED <<file, outside, orchVars, qvars, doneVars, partVars, destroyed,
                   hashVars, readerVars, cdata, histVars>>

\* process_buffers: done is computed, the mutex released; done breaks the loop
ConsumerCheck(c) ==
    /\ cpc[c] = "check"
    /\ mutex' = NoThread
    /\ cpc' = [cpc EXCEPT ![c] = IF ProcessDone THEN "exited" ELSE "deq_wait"]
    /\ UNCHANGED <<file, outside, orchVars, qvars, doneVars, partVars, destroyed,
                   hashVars, readerVars, cdata, histVars>>

\* dequeue_buffer: sem_wait(&queue->full_slots)
DequeueSemWait(c) ==
    /\ cpc[c] = "deq_wait"
    /\ full_slots > 0
    /\ full_slots' = full_slots - 1
    /\ cpc' = [cpc EXCEPT ![c] = "deq_lock"]
    /\ UNCHANGED <<file, outside, orchVars, nodes, count, empty_slots, mutex, doneVars, partVars,
                   destroyed, hashVars, readerVars, cdata, histVars>>

\* dequeue_buffer: pthread_mutex_lock(&queue->mutex)
DequeueLock(c) ==
    /\ cpc[c] = "deq_lock"
    /\ mutex = NoThread
    /\ mutex' = CThread(c)
    /\ cpc' = [cpc EXCEPT ![c] = "deq_body"]
    /\ UNCHANGED <<file, outside, orchVars, qvars, doneVars, partVars, destroyed,
                   hashVars, readerVars, cdata, histVars>>

\* int done = reading_done && active_readers == 0, in the branch count == 0
DequeueDone == reading_done # 0 /\ active_readers = 0

\* AfterEmptyDequeue with the sem_post made unconditional
AfterEmptyDequeue_Always == "deq_repost"

\* where dequeue_buffer goes after the unlock of the branch count == 0:
\* if (!done) sem_post(&queue->full_slots); return 0
AfterEmptyDequeue == IF DequeueDone THEN "check_lock" ELSE "deq_repost"

\* DequeueEmpty that also records the end of reading when it finds the queue empty
DequeueEmpty_SetsDone(c) ==
    /\ cpc[c] = "deq_body"
    /\ count = 0
    /\ mutex' = NoThread
    /\ reading_done' = 1
    /\ cpc' = [cpc EXCEPT ![c] = AfterEmptyDequeue]
    /\ UNCHANGED <<file, outside, orchVars, qvars, active_readers, partVars, destroyed,
                   hashVars, readerVars, cdata, histVars>>

\* dequeue_buffer: count == 0; done is computed and the mutex released
DequeueEmpty(c) ==
    /\ cpc[c] = "deq_body"
    /\ count = 0
    /\ mutex' = NoThread
    /\ cpc' = [cpc EXCEPT ![c] = AfterEmptyDequeue]
    /\ UNCHANGED <<file, outside, orchVars, qvars, doneVars, partVars, destroyed,
                   hashVars, readerVars, cdata, histVars>>

\* dequeue_buffer: sem_post(&queue->full_slots) of the branch count == 0; return 0
DequeueRepost(c) ==
    /\ cpc[c] = "deq_repost"
    /\ full_slots' = full_slots + 1
    /\ cpc' = [cpc EXCEPT ![c] = "check_lock"]
    /\ UNCHANGED <<file, outside, orchVars, nodes, count, empty_slots, mutex, doneVars, partVars,
                   destroyed, hashVars, readerVars, cdata, histVars>>

\* DequeueRemove without queue->head = node->next: the node stays linked
DequeueRemove_NoUnlink(c) ==
    /\ cpc[c] = "deq_body"
    /\ count # 0
    /\ nodes # <<>>
    /\ nodes' = nodes
    /\ count' = count - 1
    /\ mutex' = NoThread
    /\ cdata' = [cdata EXCEPT ![c] = Head(nodes)]
    /\ removed' = Append(removed, Head(nodes).idx)
    /\ cpc' = [cpc EXCEPT ![c] = "deq_post"]
    /\ UNCHANGED <<file, outside, orchVars, empty_slots, full_slots, doneVars, partVars,
                   destroyed, hashVars, readerVars, claims, handed, appended, folds>>

\* DequeueRemove taking the node at the tail instead of the one at the head
DequeueRemove_Tail(c) ==
    /\ cpc[c] = "deq_body"
    /\ count # 0
    /\ nodes # <<>>
    /\ nodes' = SubSeq(nodes, 1, Len(nodes) - 1)
    /\ count' = count - 1
    /\ mutex' = NoThread
    /\ cdata' = [cdata EXCEPT ![c] = nodes[Len(nodes)]]
    /\ removed' = Append(removed, nodes[Len(nodes)].idx)
    /\ cpc' = [cpc EXCEPT ![c] = "deq_post"]
    /\ UNCHANGED <<file, outside, orchVars, empty_slots, full_slots, doneVars, partVars,
                   destroyed, hashVars, readerVars, claims, handed, appended, folds>>

\* dequeue_buffer: the first node is unlinked, count--, unlock
DequeueRemove(c) ==
    /\ cpc[c] = "deq_body"
    /\ count # 0
    /\ nodes # <<>>
    /\ nodes' = Tail(nodes)
    /\ count' = count - 1
    /\ mutex' = NoThread
    /\ cdata' = [cdata EXCEPT ![c] = Head(nodes)]
    /\ removed' = Append(removed, Head(nodes).idx)
    /\ cpc' = [cpc EXCEPT ![c] = "deq_post"]
    /\ UNCHANGED <<file, outside, orchVars, empty_slots, full_slots, doneVars, partVars,
                   destroyed, hashVars, readerVars, claims, handed, appended, folds>>

\* DequeuePost without its sem_post: the freed slot is never given back
DequeuePost_NoPost(c) ==
    /\ cpc[c] = "deq_post"
    /\ cpc' = [cpc EXCEPT ![c] = "hash_lock"]
    /\ UNCHANGED <<file, outside, orchVars, qvars, mutex, doneVars, partVars,
                   destroyed, hashVars, readerVars, cdata, histVars>>

\* dequeue_buffer: sem_post(&queue->empty_slots); *data, *size; free(node); return 1
DequeuePost(c) ==
    /\ cpc[c] = "deq_post"
    /\ empty_slots' = empty_slots + 1
    /\ cpc' = [cpc EXCEPT ![c] = "hash_lock"]
    /\ UNCHANGED <<file, outside, orchVars, nodes, count, full_slots, mutex, doneVars, partVars,
                   destroyed, hashVars, readerVars, cdata, histVars>>

\* HashLock without pthread_mutex_lock(&hash_mutex)
HashLock_NoLock(c) ==
    /\ cpc[c] = "hash_lock"
    /\ hash_mutex' = hash_mutex
    /\ cpc' = [cpc EXCEPT ![c] = "hash_fold"]
    /\ UNCHANGED <<file, outside, orchVars, qvars, mutex, doneVars, partVars, destroyed,
                   global_hash_xor, readerVars, cdata, histVars>>

\* process_buffer_data: crc64_compute, then pthread_mutex_lock(&hash_mutex)
HashLock(c) ==
    /\ cpc[c] = "hash_lock"
    /\ hash_mutex = NoThread
    /\ hash_mutex' = CThread(c)
    /\ cpc' = [cpc EXCEPT ![c] = "hash_fold"]
    /\ UNCHANGED <<file, outside, orchVars, qvars, mutex, doneVars, partVars, destroyed,
                   global_hash_xor, readerVars, cdata, histVars>>

\* Combine with | in place of ^
Combine_Or(hash, block_hash) == hash \cup block_hash

\* *hash_xor ^= block_hash; global_hash_xor ^= block_hash
Combine(hash, block_hash) == U64Xor(hash, block_hash)

\* FoldHash with = in place of ^=
FoldHash_Assign(hash, data, size) == BlockHash(data, size)

\* global_hash_xor ^= block_hash
FoldHash(hash, data, size) == Combine(hash, BlockHash(data, size))

\* process_buffer_data: the fold and the unlock; process_buffers: free(data)
HashFold(c) ==
    /\ cpc[c] = "hash_fold"
    /\ global_hash_xor' = FoldHash(global_hash_xor, cdata[c].data, cdata[c].size)
    /\ hash_mutex' = NoThread
    /\ folds' = [folds EXCEPT ![cdata[c].idx] = @ + 1]
    /\ cdata' = [cdata EXCEPT ![c] = NoBlock]
    /\ cpc' = [cpc EXCEPT ![c] = "check_lock"]
    /\ UNCHANGED <<file, outside, orchVars, qvars, mutex, doneVars, partVars, destroyed,
                   readerVars, claims, handed, appended, removed>>


(***************************************************************************)
(* The threads, without and with the failures of their environment.        *)
(***************************************************************************)
OrchRun ==
    \/ OrchSetup
    \/ OrchSpawnConsumer
    \/ OrchSetActiveReaders
    \/ OrchSpawnReader
    \/ OrchJoinReader
    \/ OrchWake
    \/ OrchJoinConsumer
    \/ OrchReport
    \/ OrchCleanup

OrchReaderSpawnFailure ==
    \/ OrchSpawnReaderFail
    \/ OrchSpawnFailLock
    \/ OrchSpawnFailDec
    \/ OrchJoinReaderUndefined

ReaderRun(r) ==
    \/ ReaderStart(r)
    \/ ReaderClaimLock(r)
    \/ ReaderClaim(r)
    \/ ReaderRead(r)
    \/ EnqueueSemWait(r)
    \/ EnqueueLock(r)
    \/ EnqueueAppend(r)
    \/ EnqueuePost(r)
    \/ ReaderExitLock(r)
    \/ ReaderExitDec(r)

ReaderStartFailure(r) ==
    \/ ReaderOpenFail(r)
    \/ ReaderAllocFail(r)
    \/ ReaderFailLock(r)
    \/ ReaderFailDec(r)

ReaderReadFailure(r) ==
    \/ ReaderShortRead(r)
    \/ ReaderReadNothing(r)

EnqueueFailure(r) ==
    \/ EnqueueAllocFail(r)
    \/ EnqueueFailPost(r)

ConsumerRun(c) ==
    \/ ConsumerCheckLock(c)
    \/ ConsumerCheck(c)
    \/ DequeueSemWait(c)
    \/ DequeueLock(c)
    \/ DequeueEmpty(c)
    \/ DequeueRemove(c)
    \/ DequeuePost(c)
    \/ HashLock(c)
    \/ HashFold(c)

\* every step of the orchestrator, of one reader, of one consumer
Orchestrator ==
    OrchRun \/ OrchGetFileSizeFail \/ OrchSpawnConsumerFail \/ OrchReaderSpawnFailure

Reader(r) ==
    ReaderRun(r) \/ ReaderStartFailure(r) \/ ReaderReadFailure(r) \/ EnqueueFailure(r)

\* the sem_post of dequeue_buffer's branch count == 0 runs only after a failure
\* (NoSpuriousWake below), so it is a step of the runs with failures
Consumer(c) == ConsumerRun(c) \/ DequeueRepost(c)

Next ==
    \/ Orchestrator
    \/ \E r \in Readers : Reader(r)
    \/ \E c \in Consumers : Consumer(c)

\* the program with every failure of its environment
Spec == Init /\ [][Next]_vars


(***************************************************************************)
(* Runs in which nothing fails: the file is not empty and can be opened,   *)
(* every thread is created, every allocation and every read succeeds.      *)
(* Threads are preemptible pthreads: a thread that can take a step is      *)
(* eventually scheduled.                                                   *)
(***************************************************************************)
InitRun == Init /\ Len(file) > 0

NextRun ==
    \/ OrchRun
    \/ \E r \in Readers : ReaderRun(r)
    \/ \E c \in Consumers : ConsumerRun(c)

FairRun ==
    /\ WF_vars(OrchRun)
    /\ \A r \in Readers : WF_vars(ReaderRun(r))
    /\ \A c \in Consumers : WF_vars(ConsumerRun(c))

SpecRun == InitRun /\ [][NextRun]_vars /\ FairRun

AllExited ==
    /\ \A r \in Readers : rpc[r] = "exited"
    /\ \A c \in Consumers : cpc[c] = "exited"

Reported == opc \in {"cleanup", "done"}

\* in a run without failures no consumer finds count == 0 before the drain
NoSpuriousWake == \A c \in Consumers : cpc[c] # "deq_repost"

(***************************************************************************)
(* Runs in which readers may fail to open the file or to allocate their    *)
(* read buffer, and nothing else fails.                                    *)
(***************************************************************************)
NextReaderFail ==
    \/ OrchRun
    \/ \E r \in Readers : ReaderRun(r) \/ ReaderStartFailure(r)
    \/ \E c \in Consumers : Consumer(c)

FairReaderFail ==
    /\ WF_vars(OrchRun)
    /\ \A r \in Readers : WF_vars(ReaderRun(r) \/ ReaderStartFailure(r))
    /\ \A c \in Consumers : WF_vars(Consumer(c))

SpecReaderFail == InitRun /\ [][NextReaderFail]_vars /\ FairReaderFail

(***************************************************************************)
(* Runs in which pthread_create may fail for readers, and nothing else     *)
(* fails.                                                                  *)
(***************************************************************************)
NextSpawnFail ==
    \/ OrchRun \/ OrchReaderSpawnFailure
    \/ \E r \in Readers : ReaderRun(r)
    \/ \E c \in Consumers : Consumer(c)

FairSpawnFail ==
    /\ WF_vars(OrchRun \/ OrchReaderSpawnFailure)
    /\ \A r \in Readers : WF_vars(ReaderRun(r))
    /\ \A c \in Consumers : WF_vars(Consumer(c))

SpecSpawnFail == InitRun /\ [][NextSpawnFail]_vars /\ FairSpawnFail

\* C1: in a run without failures, under fair scheduling, every reader and every
\* consumer exits and async_sequential_read reaches its report and cleanup.
C1_Termination == <>(opc = "done" /\ AllExited)

\* a finished run of a file with more blocks than the queue holds
C1_Witness == opc = "done" /\ AllExited /\ total_blocks > MAX_QUEUE_SIZE


(***************************************************************************)
(* C2                                                                      *)
(***************************************************************************)
\* the XOR of crc64_compute over the blocks i, i+1, .. of the file f, in index order
RECURSIVE XorOfBlocksFrom(_, _)
XorOfBlocksFrom(f, i) ==
    IF i >= NumBlocks(Len(f)) THEN U64Zero
    ELSE U64Xor(BlockHash(FileRange(f, BlockOffset(i), BytesToRead(i, Len(f))),
                          BytesToRead(i, Len(f))),
                XorOfBlocksFrom(f, i + 1))

\* C2: in a run without failures the hash the orchestrator reads after joining
\* the consumers is the XOR of the digests of all blocks of the file, whichever
\* consumer folded which block and in whichever order.
C2_Determinism == Reported => final_hash = XorOfBlocksFrom(file, 0)

\* a reported run of three blocks that were not appended in index order
C2_Witness == Reported /\ total_blocks = 3 /\ Len(appended) = 3 /\ appended[1] # 0

(***************************************************************************)
(* C3                                                                      *)
(***************************************************************************)
ClaimedIndices == {claims[k][2] : k \in DOMAIN claims}

ClaimedOnce == \A j, k \in DOMAIN claims : j # k => claims[j][2] # claims[k][2]

AllReadersExited == \A r \in Readers : rpc[r] = "exited"

C4_QueueBounds == 0 <= count /\ count <= MAX_QUEUE_SIZE

\* the queue is full and a reader is waiting in sem_wait(&queue->empty_slots)
C4_Witness ==
    /\ count = MAX_QUEUE_SIZE
    /\ empty_slots = 0
    /\ \E r \in Readers : rpc[r] = "enq_wait"

(***************************************************************************)
(* C5                                                                      *)
(***************************************************************************)
\* consumer c leaves the critical section of dequeue_buffer's branch count == 0
\* having found the queue drained
LeavesDrained(c) ==
    /\ cpc[c] = "deq_body" /\ cpc'[c] # "deq_body"
    /\ count = 0 /\ DequeueDone

\* C5 as stated: a dequeue_buffer call that finds the queue permanently
\* drained goes on to post full_slots before it returns the empty result.
C5_ResignalOnDrain ==
    [][\A c \in Consumers : LeavesDrained(c) => cpc'[c] = "deq_repost"]_vars

\* C5 amended: a dequeue_buffer call that finds the queue permanently drained
\* returns the empty result without posting full_slots; the unit it took stays
\* consumed, and a call that goes on to the sem_post found the queue empty but
\* not drained.
C5_NoResignalOnDrain ==
    [][\A c \in Consumers :
          /\ LeavesDrained(c) =>
                cpc'[c] = "check_lock" /\ full_slots' = full_slots
          /\ (cpc[c] = "deq_body" /\ cpc'[c] = "deq_repost") =>
                count = 0 /\ ~DequeueDone]_vars

\* every consumer was woken by one of the orchestrator's posts, found the
\* queue drained and returned: all the posts are used up and none was given back
C5_Witness ==
    /\ opc = "join_consumers"
    /\ full_slots = 0
    /\ reading_done = 1 /\ active_readers = 0 /\ count = 0
    /\ \A c \in Consumers : cpc[c] \in {"check_lock", "check", "exited"}

(***************************************************************************)
(* C6                                                                      *)
(***************************************************************************)
\* queue.active_readers = NUM_READERS has been executed
ReadersStarted ==
    opc \in {"spawn_readers", "spawn_fail_lock", "spawn_fail_dec", "join_readers",
             "wake", "join_consumers", "report", "cleanup", "done", "crashed"}

\* C6: once the readers have been started, active_readers == 0 implies
\* reading_done == 1 (every decrement that reaches zero sets reading_done).
C6_DoneWhenNoReaders == (ReadersStarted /\ active_readers = 0) => reading_done = 1

(***************************************************************************)
(* C7                                                                      *)
(***************************************************************************)
AllConsumersExited == \A c \in Consumers : cpc[c] = "exited"

\* C7: when readers fail to open the file or to allocate their buffer, every
\* consumer still exits and the orchestrator reaches its report.
C7_ReaderFailureConverges == <>(Reported /\ AllConsumersExited)

(***************************************************************************)
(* C8                                                                      *)
(***************************************************************************)
\* C8: when pthread_create fails for readers, every consumer still exits and
\* the run reaches its report; stated for the runs that survive the
\* pthread_join calls on the handles the failed pthread_create left undefined.
C8_SpawnFailureConverges == <>((Reported /\ AllConsumersExited) \/ opc = "crashed")

(***************************************************************************)
(* C9                                                                      *)
(***************************************************************************)
\* C9: a failed pthread_create of a consumer does not abort the run.
C9_NoAbort == opc # "aborted"

(***************************************************************************)
(* C10                                                                     *)
(***************************************************************************)
AppendedIndices == {appended[k] : k \in DOMAIN appended}

\* reader r is inside enqueue_buffer, before the node is linked
InEnqueue(r) == rpc[r] \in {"enq_wait", "enq_lock", "enq_body"}

\* C10: every block handed to enqueue_buffer has been appended to the queue
\* once the reader has left enqueue_buffer's critical section.
C10_NoSilentDrop ==
    \A i \in handed :
        i \in AppendedIndices \/ \E r \in Readers : InEnqueue(r) /\ rblock[r].idx = i

(***************************************************************************)
(* C11                                                                     *)
(***************************************************************************)
\* units of empty_slots taken by an enqueue_buffer call that has neither
\* linked its node nor given the unit back
SlotsHeld ==
    Cardinality({r \in Readers : rpc[r] \in {"enq_lock", "enq_body", "enq_fail_post"}})

\* nodes unlinked by a dequeue_buffer call that has not yet posted empty_slots
SlotsOwed == Cardinality({c \in Consumers : cpc[c] = "deq_post"})

CapacityConserved == empty_slots + count + SlotsHeld + SlotsOwed = MAX_QUEUE_SIZE

\* reader r takes the allocation-failure branch of enqueue_buffer
FailsEnqueue(r) == rpc[r] = "enq_body" /\ rpc'[r] = "enq_fail_post"

\* reader r returns 0 from enqueue_buffer
ReturnsFailure(r) == rpc[r] = "enq_fail_post" /\ rpc'[r] # "enq_fail_post"

\* C11: a failed allocation in enqueue_buffer releases queue->mutex, leaves the
\* list, count and full_slots as they were and gives the unit of empty_slots
\* back before returning, so that the capacity of the queue stays
\* MAX_QUEUE_SIZE however many enqueues fail.
C11_AllocFailureKeepsCapacity ==
    /\ []CapacityConserved
    /\ [][\A r \in Readers :
            /\ FailsEnqueue(r) =>
                  /\ mutex = RThread(r) /\ mutex' = NoThread
                  /\ UNCHANGED <<nodes, count, empty_slots, full_slots>>
            /\ ReturnsFailure(r) =>
                  /\ empty_slots' = empty_slots + 1
                  /\ UNCHANGED <<nodes, count, full_slots, mutex>>]_vars

\* an enqueue failed and the queue was filled to its capacity afterwards
C11_Witness ==
    /\ count = MAX_QUEUE_SIZE
    /\ \E i \in handed :
          /\ i \notin AppendedIndices
          /\ \A r \in Readers : rblock[r].idx # i

(***************************************************************************)
(* C12                                                                     *)
(***************************************************************************)
\* reader r's fseek and fread return
ReadReturns(r) == rpc[r] = "read" /\ rpc'[r] # "read"

\* bytes_to_read of the block reader r has claimed
Requested(r) == BytesToRead(rblock[r].idx, file_size)

\* reader r is past its claim loop
ReaderLeaving(r) == rpc[r] \in {"exit_lock", "exit_dec", "exited"}

\* C12 as stated: a read that returns fewer bytes than requested, from 0 up to
\* requested - 1, takes the reader out of its claim loop.
C12_ShortReadEndsReader ==
    [][\A r \in Readers :
          (ReadReturns(r) /\ rblock'[r].size < Requested(r)) => rpc'[r] = "exit_lock"]_vars

\* C12 amended: only a failed seek or a read of 0 bytes takes the reader out of
\* its claim loop, and it then claims nothing more and performs its exit
\* decrement; a read of 1 .. requested bytes is handed to enqueue_buffer with
\* the size that was read, and after enqueue_buffer the reader claims again.
C12_OnlyEmptyReadEndsReader ==
    [][\A r \in Readers :
          /\ ReadReturns(r) =>
                \/ /\ rblock'[r].size = 0
                   /\ rpc'[r] = "exit_lock"
                   /\ handed' = handed
                \/ /\ rblock'[r].size \in 1..Requested(r)
                   /\ rpc'[r] = "enq_wait"
                   /\ rblock[r].idx \in handed'
          /\ (rpc[r] \in {"enq_post", "enq_fail_post"} /\ rpc'[r] # rpc[r]) =>
                rpc'[r] = "claim_lock"
          /\ ReaderLeaving(r) => ReaderLeaving(r)' /\ rblock'[r] = rblock[r]
          /\ (rpc[r] = "exit_dec" /\ rpc'[r] = "exited") =>
                active_readers' = active_readers - 1]_vars

\* a reader whose short block is in the queue has claimed another index and is
\* reading it
C12_Witness ==
    \E r \in Readers : \E n \in DOMAIN nodes :
        /\ rpc[r] = "read"
        /\ nodes[n].size < BytesToRead(nodes[n].idx, file_size)
        /\ \E k \in DOMAIN claims : claims[k] = <<r, nodes[n].idx>>

(***************************************************************************)
(* C13                                                                     *)
(***************************************************************************)
NoThreadCreated ==
    /\ \A r \in Readers : rpc[r] = "unborn"
    /\ \A c \in Consumers : cpc[c] = "unborn"

\* C13 as stated: the run of an empty file does not end without a report.
C13_EmptyFileReports == Len(file) = 0 => opc # "returned_early"

\* C13 amended: for an empty file get_file_size returns 0 and
\* async_sequential_read returns at once: no queue is set up, no thread is
\* created, no block is claimed or folded, and no result is reported.
C13_EmptyFileReturnsEarly ==
    Len(file) = 0 =>
        /\ opc \in {"idle", "returned_early"}
        /\ NoThreadCreated
        /\ claims = <<>> /\ \A i \in BlockIds : folds[i] = 0
        /\ global_hash_xor = U64Zero /\ final_hash = U64Zero
        /\ ~destroyed

\* async_sequential_read has returned from its get_file_size test on an empty file
C13_Witness == Len(file) = 0 /\ opc = "returned_early"

(***************************************************************************)
(* C14                                                                     *)
(***************************************************************************)
\* q is the ceiling of a / b
IsCeilingDiv(q, a, b) == q * b >= a /\ (q - 1) * b < a

\* the length the claim gives the block with index i
BlockLength(i) ==
    IF i = total_blocks - 1 THEN file_size - i * BLOCK_SIZE ELSE BLOCK_SIZE

\* bytes_to_read summed over the indices below n
RECURSIVE SumBytesToRead(_)
SumBytesToRead(n) ==
    IF n = 0 THEN 0 ELSE BytesToRead(n - 1, file_size) + SumBytesToRead(n - 1)

\* the block b is the block with index b.idx of the file, whole
IsBlockOfFile(b) ==
    /\ b.size = BlockLength(b.idx)
    /\ b.data = FileRange(file, b.idx * BLOCK_SIZE, b.size)

\* C14: total_blocks is the ceiling of file_size / BLOCK_SIZE; block i starts at
\* i * BLOCK_SIZE and is BLOCK_SIZE long, except the last, which ends at
\* file_size; the lengths add up to file_size; every block read, queued or
\* dequeued in a run without failures has exactly these bytes; a file of
\* BLOCK_SIZE bytes is one full block and one of BLOCK_SIZE + 1 bytes is two
\* blocks, the second of length 1.
C14_BlockGeometry ==
    opc # "idle" =>
        /\ IsCeilingDiv(total_blocks, file_size, BLOCK_SIZE)
        /\ \A i \in 0..(total_blocks - 1) :
              /\ BlockOffset(i) = i * BLOCK_SIZE
              /\ BytesToRead(i, file_size) = BlockLength(i)
              /\ BytesToRead(i, file_size) \in 1..BLOCK_SIZE
        /\ SumBytesToRead(total_blocks) = file_size
        /\ \A r \in Readers :
              rpc[r] \in {"enq_wait", "enq_lock", "enq_body", "enq_post"} =>
                  IsBlockOfFile(rblock[r])
        /\ \A n \in DOMAIN nodes : IsBlockOfFile(nodes[n])
        /\ \A c \in Consumers : cdata[c] # NoBlock => IsBlockOfFile(cdata[c])
        /\ AllReadersExited => Len(claims) = total_blocks
        /\ file_size = BLOCK_SIZE => total_blocks = 1
        /\ file_size = BLOCK_SIZE + 1 =>
              total_blocks = 2 /\ BytesToRead(1, file_size) = 1

\* the second block of a file of BLOCK_SIZE + 1 bytes is queued, one byte long,
\* and both blocks are claimed
C14_Witness ==
    /\ file_size = BLOCK_SIZE + 1
    /\ Len(claims) = 2
    /\ \E n \in DOMAIN nodes : nodes[n].idx = 1 /\ nodes[n].size = 1

(***************************************************************************)
(* C15                                                                     *)
(***************************************************************************)
NoDuplicates(seq) == \A j, k \in DOMAIN seq : j # k => seq[j] # seq[k]

\* consumer c holds a block that dequeue_buffer returned and has not folded it yet
HoldsBlock(c) == cdata[c] # NoBlock

\* C15: every node is appended with an index of its own, is removed from the
\* list by at most one dequeue_buffer call, is then held by one consumer only
\* and is no longer in the list, and is folded into global_hash_xor at most once.
C15_AtMostOnce ==
    /\ NoDuplicates(appended)
    /\ NoDuplicates(removed)
    /\ \A i \in BlockIds : folds[i] <= 1
    /\ \A c \in Consumers :
          HoldsBlock(c) =>
              /\ folds[cdata[c].idx] = 0
              /\ \A n \in DOMAIN nodes : nodes[n].idx # cdata[c].idx
              /\ \A d \in Consumers : d # c => cdata[d].idx # cdata[c].idx

\* every consumer holds a block at the same time
C15_Witness ==
    /\ \A c \in Consumers : HoldsBlock(c)
    /\ Len(removed) >= NUM_CONSUMERS


(***************************************************************************)
(* read_file: sequential_read, random_read, sequential_mmap and            *)
(* random_mmap run one after the other, then async_sequential_read.  No    *)
(* open, allocation, mapping or read fails in these four.                  *)
(***************************************************************************)
asyncVars == <<opc, oi, final_hash, qvars, mutex, doneVars, partVars, destroyed,
               hashVars, readerVars, consumerVars, histVars>>

\* process_block_xor: *hash_xor ^= crc64_compute(data, size)
process_block_xor(hash, data, size) == Combine(hash, BlockHash(data, size))

\* the function hashes the size bytes at offset and goes on at position pos
HashRange(offset, size, pos) ==
    /\ hash_xor' = process_block_xor(hash_xor, FileRange(file, offset, size), size)
    /\ visited' = Append(visited, <<offset, size>>)
    /\ spc' = pos

\* get_file_size or map_file finds the file empty: the function returns
StrategyEmptyFile ==
    /\ sfunc \in StrategyNames
    /\ spc = "entry"
    /\ Len(file) = 0
    /\ spc' = "returned"
    /\ UNCHANGED <<file, asyncVars, sfunc, si, soffset, hash_xor, printed, visited,
                   crcVars, xorVars>>

\* the lines of a function up to its loop: get_file_size or map_file succeed,
\* setup_hashing(), hash_xor = 0
StrategyEnter(f, pos) ==
    /\ sfunc = f
    /\ spc = "entry"
    /\ Len(file) > 0
    /\ setup_hashing
    /\ hash_xor' = U64Zero
    /\ si' = 0 /\ soffset' = 0
    /\ visited' = <<>>
    /\ spc' = pos
    /\ UNCHANGED <<file, asyncVars, sfunc, printed, kpc, ki, builders, xorVars>>

SequentialReadEnter == StrategyEnter("sequential_read", "loop")
RandomReadEnter == StrategyEnter("random_read", "first")
SequentialMmapEnter == StrategyEnter("sequential_mmap", "loop")
RandomMmapEnter == StrategyEnter("random_mmap", "first")

\* fread(buffer, 1, BLOCK_SIZE, file) at the file position soffset
FreadCount(pos) == IF Len(file) - pos < BLOCK_SIZE THEN Len(file) - pos ELSE BLOCK_SIZE

\* sequential_read: while ((bytes_read = fread(...)) > 0) process_block_xor(...)
SequentialReadBlock ==
    /\ sfunc = "sequential_read"
    /\ spc = "loop"
    /\ IF FreadCount(soffset) > 0
       THEN /\ HashRange(soffset, FreadCount(soffset), "loop")
            /\ soffset' = soffset + FreadCount(soffset)
       ELSE /\ spc' = "print"
            /\ UNCHANGED <<hash_xor, visited, soffset>>
    /\ UNCHANGED <<file, asyncVars, sfunc, si, printed, crcVars, xorVars>>

\* sequential_mmap: while (offset < file_size) { block_size; process_block_xor; offset += block_size }
SequentialMmapBlock ==
    /\ sfunc = "sequential_mmap"
    /\ spc = "loop"
    /\ IF soffset < Len(file)
       THEN LET block_size == IF soffset + BLOCK_SIZE > Len(file)
                              THEN Len(file) - soffset ELSE BLOCK_SIZE
            IN  /\ HashRange(soffset, block_size, "loop")
                /\ soffset' = soffset + block_size
       ELSE /\ spc' = "print"
            /\ UNCHANGED <<hash_xor, visited, soffset>>
    /\ UNCHANGED <<file, asyncVars, sfunc, si, printed, crcVars, xorVars>>

\* VisitLast without the test last_block != first_block
VisitLast_NoMiddleCheck(i, num_blocks) == num_blocks - 1 - i < num_blocks

\* if (last_block != first_block && last_block < num_blocks)
VisitLast(i, num_blocks) ==
    num_blocks - 1 - i # i /\ num_blocks - 1 - i < num_blocks

\* random_read and random_mmap: the loop test and the first block of iteration i
AlternatingFirst ==
    /\ spc = "first"
    /\ LET num_blocks == NumBlocks(Len(file))
       IN  IF si < (num_blocks + 1) \div 2
           THEN IF si < num_blocks
                THEN HashRange(BlockOffset(si), BytesToRead(si, Len(file)), "last")
                ELSE spc' = "last" /\ UNCHANGED <<hash_xor, visited>>
           ELSE spc' = "print" /\ UNCHANGED <<hash_xor, visited>>
    /\ UNCHANGED <<file, asyncVars, sfunc, si, soffset, printed, crcVars, xorVars>>

\* random_read and random_mmap: the last block of iteration i, and i++
AlternatingLast ==
    /\ spc = "last"
    /\ LET num_blocks == NumBlocks(Len(file))
           last_block == num_blocks - 1 - si
       IN  IF VisitLast(si, num_blocks)
           THEN HashRange(BlockOffset(last_block), BytesToRead(last_block, Len(file)),
                          "first")
           ELSE spc' = "first" /\ UNCHANGED <<hash_xor, visited>>
    /\ si' = si + 1
    /\ UNCHANGED <<file, asyncVars, sfunc, soffset, printed, crcVars, xorVars>>

RandomReadFirst == sfunc = "random_read" /\ AlternatingFirst
RandomReadLast == sfunc = "random_read" /\ AlternatingLast
RandomMmapFirst == sfunc = "random_mmap" /\ AlternatingFirst
RandomMmapLast == sfunc = "random_mmap" /\ AlternatingLast

\* print_results(name, hash_xor, total_bytes, t0); the function returns
StrategyPrint ==
    /\ sfunc \in StrategyNames
    /\ spc = "print"
    /\ printed' = [printed EXCEPT ![sfunc] = hash_xor]
    /\ spc' = "returned"
    /\ UNCHANGED <<file, asyncVars, sfunc, si, soffset, hash_xor, visited, crcVars,
                   xorVars>>

\* read_file calls its next function
ReadFileNext ==
    /\ spc = "returned"
    /\ \E k \in DOMAIN Strategies :
          /\ sfunc = Strategies[k]
          /\ sfunc' = IF k = Len(Strategies) THEN "async_sequential_read"
                      ELSE Strategies[k + 1]
    /\ spc' = "entry"
    /\ si' = 0 /\ soffset' = 0 /\ hash_xor' = U64Zero /\ visited' = <<>>
    /\ UNCHANGED <<file, asyncVars, printed, crcVars, xorVars>>

StrategyStep ==
    \/ StrategyEmptyFile
    \/ SequentialReadEnter \/ SequentialReadBlock
    \/ RandomReadEnter \/ RandomReadFirst \/ RandomReadLast
    \/ SequentialMmapEnter \/ SequentialMmapBlock
    \/ RandomMmapEnter \/ RandomMmapFirst \/ RandomMmapLast
    \/ StrategyPrint
    \/ ReadFileNext

InitReadFile ==
    /\ InitAsync
    /\ sfunc = "sequential_read" /\ InitStrategies
    /\ InitCrc
    /\ InitNoDigests

\* async_sequential_read as read_file calls it, without failures
AsyncStep ==
    /\ sfunc = "async_sequential_read"
    /\ NextRun \/ (Len(file) = 0 /\ OrchGetFileSizeFail)

NextReadFile == StrategyStep \/ AsyncStep

SpecReadFile == InitReadFile /\ [][NextReadFile]_vars

(***************************************************************************)
(* C16                                                                     *)
(***************************************************************************)
\* <<offset, size>> of the blocks of the file, each index once
BlocksOfFile ==
    {<<BlockOffset(i), BytesToRead(i, Len(file))>> : i \in 0..(NumBlocks(Len(file)) - 1)}

\* the running function hashed every block of the file exactly once
VisitedEachOnce ==
    /\ Len(visited) = NumBlocks(Len(file))
    /\ {visited[k] : k \in DOMAIN visited} = BlocksOfFile

\* C16: sequential_read, random_read, sequential_mmap and random_mmap each hash
\* every block index of the file exactly once, with the block boundaries of
\* async_sequential_read, for even and for odd numbers of blocks; the hashes
\* they print are equal, and equal to the hash async_sequential_read reports.
C16_StrategiesAgree ==
    /\ (sfunc \in StrategyNames /\ spc \in {"print", "returned"} /\ Len(file) > 0) =>
          VisitedEachOnce
    /\ \A f, g \in StrategyNames :
          (printed[f] # NoResult /\ printed[g] # NoResult) => printed[f] = printed[g]
    /\ Reported => \A f \in StrategyNames : printed[f] = final_hash

\* all five functions have reported the same non-zero hash of a file with an
\* odd number of blocks
C16_Witness ==
    /\ Reported
    /\ total_blocks = 3
    /\ final_hash # U64Zero
    /\ \A f \in StrategyNames : printed[f] = final_hash


(***************************************************************************)
(* crc64_simple.c under concurrent callers.  Each caller calls crc64_init, *)
(* on its own or as the first statement of crc64_update.  The flag and the *)
(* table are plain statics: no lock and no atomic orders the accesses of   *)
(* two threads.                                                            *)
(***************************************************************************)
Callers == 1..NUM_CALLERS

TableEntries == 0..(CRC64_TABLE_SIZE - 1)

crcFrame == <<file, asyncVars, stratVars, xorVars>>

\* a thread calls crc64_init(), or crc64_compute(), which calls it first
CrcCall(t) ==
    /\ kpc[t] = "idle"
    /\ kpc' = [kpc EXCEPT ![t] = "init_check"]
    /\ UNCHANGED <<crcFrame, crc64_initialized, table_set, ki, builders>>

\* crc64_init: if (crc64_initialized) return;
CrcInitCheck(t) ==
    /\ kpc[t] = "init_check"
    /\ kpc' = [kpc EXCEPT ![t] = IF crc64_initialized # 0 THEN "init_done" ELSE "init_loop"]
    /\ ki' = [ki EXCEPT ![t] = 0]
    /\ UNCHANGED <<crcFrame, crc64_initialized, table_set, builders>>

\* crc64_init: one iteration of the outer loop, crc64_table[i] = crc
CrcInitWrite(t) ==
    /\ kpc[t] = "init_loop"
    /\ ki[t] < CRC64_TABLE_SIZE
    /\ table_set' = table_set \cup {ki[t]}
    /\ builders' = builders \cup {t}
    /\ ki' = [ki EXCEPT ![t] = ki[t] + 1]
    /\ UNCHANGED <<crcFrame, crc64_initialized, kpc>>

\* crc64_init: the loop is over; crc64_initialized = 1
CrcInitSetFlag(t) ==
    /\ kpc[t] = "init_loop"
    /\ ki[t] = CRC64_TABLE_SIZE
    /\ crc64_initialized' = 1
    /\ kpc' = [kpc EXCEPT ![t] = "init_done"]
    /\ UNCHANGED <<crcFrame, table_set, ki, builders>>

\* the store crc64_initialized = 1 is not ordered after the stores to the
\* table for another thread: it can become visible while entries are missing
CrcInitFlagVisibleEarly(t) ==
    /\ kpc[t] = "init_loop"
    /\ ki[t] < CRC64_TABLE_SIZE
    /\ crc64_initialized = 0
    /\ crc64_initialized' = 1
    /\ UNCHANGED <<crcFrame, table_set, kpc, ki, builders>>

\* crc64_init returns: to its caller, or into the loop of crc64_update
CrcInitReturn(t) ==
    /\ kpc[t] = "init_done"
    /\ \E pos \in {"update", "returned"} : kpc' = [kpc EXCEPT ![t] = pos]
    /\ UNCHANGED <<crcFrame, crc64_initialized, table_set, ki, builders>>

\* crc64_update: the loop that reads crc64_table[(crc ^ data[i]) & 0xFF]
CrcUpdate(t) ==
    /\ kpc[t] = "update"
    /\ kpc' = [kpc EXCEPT ![t] = "returned"]
    /\ UNCHANGED <<crcFrame, crc64_initialized, table_set, ki, builders>>

\* a thread that has returned calls again
CrcCallAgain(t) ==
    /\ kpc[t] = "returned"
    /\ kpc' = [kpc EXCEPT ![t] = "init_check"]
    /\ UNCHANGED <<crcFrame, crc64_initialized, table_set, ki, builders>>

CrcCaller(t) ==
    \/ CrcCall(t) \/ CrcInitCheck(t) \/ CrcInitWrite(t) \/ CrcInitSetFlag(t)
    \/ CrcInitFlagVisibleEarly(t) \/ CrcInitReturn(t) \/ CrcUpdate(t) \/ CrcCallAgain(t)

NextCrc == \E t \in Callers : CrcCaller(t)

SpecCrc == Init /\ [][NextCrc]_vars

(***************************************************************************)
(* C17                                                                     *)
(***************************************************************************)
\* C17: of the callers of crc64_init only the first one writes crc64_table,
\* every other call returns without writing it, and a caller is in the loop
\* of crc64_update only when every entry of the table has its value.
C17_InitOnce ==
    /\ Cardinality(builders) <= 1
    /\ \A t \in Callers : kpc[t] = "update" => table_set = TableEntries


(***************************************************************************)
(* The combining operator of process_block_xor and process_buffer_data,    *)
(* applied to a sequence of digests in every order.                        *)
(***************************************************************************)
\* the digests to fold are chosen
InitDigests ==
    /\ InitAsync
    /\ sfunc = "async_sequential_read" /\ InitStrategies
    /\ InitCrc
    /\ digests \in [1..NumDigests -> Digests]
    /\ folded = {}
    /\ acc = U64Zero

\* one digest that has not been folded yet is folded into the accumulator
FoldDigest(k) ==
    /\ k \in DOMAIN digests \ folded
    /\ acc' = Combine(acc, digests[k])
    /\ folded' = folded \cup {k}
    /\ UNCHANGED <<file, asyncVars, stratVars, crcVars, digests>>

NextDigests == \E k \in 1..NumDigests : FoldDigest(k)

SpecDigests == InitDigests /\ [][NextDigests]_vars

(***************************************************************************)
(* C18                                                                     *)
(***************************************************************************)
\* the digests among the first k that have been folded, combined in index order
RECURSIVE FoldInOrder(_)
FoldInOrder(k) ==
    IF k = 0 THEN U64Zero
    ELSE IF k \in folded THEN Combine(FoldInOrder(k - 1), digests[k])
         ELSE FoldInOrder(k - 1)

\* the digests at hand: the ones chosen and the accumulator
DigestsAtHand == {digests[k] : k \in DOMAIN digests} \cup {acc}

\* C18: the combining operator is commutative and associative, has the
\* identity 0 and is its own inverse on 64-bit values, and the accumulator
\* after folding any set of digests in any order is their combination in
\* index order.
C18_CombineLaws ==
    /\ \A a, b \in DigestsAtHand : Combine(a, b) = Combine(b, a)
    /\ \A a, b, c \in DigestsAtHand :
          Combine(Combine(a, b), c) = Combine(a, Combine(b, c))
    /\ \A a \in DigestsAtHand :
          /\ Combine(a, U64Zero) = a /\ Combine(U64Zero, a) = a
          /\ Combine(a, a) = U64Zero
          /\ a \subseteq 0..63
    /\ acc = FoldInOrder(NumDigests)

\* NumDigests different digests have all been folded and have not cancelled
C18_Witness ==
    /\ folded = 1..NumDigests
    /\ Cardinality({digests[k] : k \in DOMAIN digests}) = NumDigests
    /\ acc # U64Zero


(***************************************************************************)
(* C19                                                                     *)
(***************************************************************************)
\* the changes of position that follow the order: consumers spawned,
\* active_readers set and readers spawned (a failed spawn is made up for on the
\* way), readers joined, full_slots posted, consumers joined, report, cleanup
OrchOrder ==
    {<<"idle", "returned_early">>, <<"idle", "spawn_consumers">>,
     <<"spawn_consumers", "set_active">>, <<"set_active", "spawn_readers">>,
     <<"spawn_readers", "spawn_fail_lock">>, <<"spawn_fail_lock", "spawn_fail_dec">>,
     <<"spawn_fail_dec", "spawn_readers">>, <<"spawn_fail_dec", "join_readers">>,
     <<"spawn_readers", "join_readers">>, <<"join_readers", "wake">>,
     <<"wake", "join_consumers">>, <<"join_consumers", "report">>,
     <<"report", "cleanup">>, <<"cleanup", "done">>}

\* C19: the orchestrator goes through its steps in the order of OrchOrder and
\* leaves a step only when it is complete: every consumer created before
\* active_readers is set, every reader exited before the first post, one post
\* for each consumer before the joins, every consumer exited before the report,
\* and the queue released after the report only.
C19_OrchestratorOrder ==
    [][/\ opc' # opc => <<opc, opc'>> \in OrchOrder
       /\ opc' = "set_active" => \A c \in Consumers : cpc'[c] # "unborn"
       /\ opc' = "wake" => \A r \in Readers : rpc'[r] = "exited"
       /\ (opc = "wake" /\ opc' = "join_consumers") => oi = NUM_CONSUMERS
       /\ opc' = "report" => \A c \in Consumers : cpc'[c] = "exited"
       /\ destroyed' => opc' = "done"]_vars

(***************************************************************************)
(* C20                                                                     *)
(***************************************************************************)
AllConsumersCreated == \A c \in Consumers : cpc[c] # "unborn"

\* a reader thread has been created, or its creation has been attempted
ReadersBegun == \E r \in Readers : rpc[r] # "unborn"

\* C20: no reader exists, no index is claimed and nothing is handed to
\* enqueue_buffer before every consumer thread has been created, and no
\* consumer has exited before active_readers was set and the readers were
\* started, nor while reading_done is 0.
C20_ConsumersBeforeReaders ==
    /\ (ReadersBegun \/ claims # <<>> \/ handed # {}) => AllConsumersCreated
    /\ \A c \in Consumers :
          cpc[c] = "exited" => ReadersStarted /\ ReadersBegun /\ reading_done = 1

\* before the readers are started every consumer is blocked in
\* sem_wait(&queue->full_slots) on the empty queue
C20_Witness ==
    /\ opc = "set_active"
    /\ ~ReadersBegun
    /\ full_slots = 0 /\ count = 0 /\ reading_done = 0
    /\ \A c \in Consumers : cpc[c] = "deq_wait"

(***************************************************************************)
(* C21                                                                     *)
(***************************************************************************)
RECURSIVE SumFolds(_)
SumFolds(n) == IF n < 0 THEN 0 ELSE folds[n] + SumFolds(n - 1)

RemovedIndices == {removed[k] : k \in DOMAIN removed}

\* C21: global_hash_xor is 0 while the consumers are being spawned and as long
\* as nothing has been folded; it changes only in a step of a consumer that
\* holds hash_mutex (or in the reset of the setup); every block that
\* dequeue_buffer returned is held by its consumer or has been folded exactly
\* once, and nothing else is folded; and when the orchestrator reads
\* global_hash_xor every consumer has exited, the queue is empty and there are
\* as many folds as successful enqueues.
C21_AccumulatorLifecycle ==
    /\ [](/\ opc = "spawn_consumers" => global_hash_xor = U64Zero
          /\ SumFolds(MaxFileSize) = 0 => global_hash_xor = U64Zero
          /\ \A i \in BlockIds :
                /\ folds[i] <= 1
                /\ folds[i] = 1 => i \in RemovedIndices
                /\ i \in RemovedIndices =>
                      folds[i] = 1 \/ \E c \in Consumers : cdata[c].idx = i
          /\ opc \in {"report", "cleanup", "done"} =>
                /\ AllConsumersExited
                /\ nodes = <<>> /\ count = 0
                /\ SumFolds(MaxFileSize) = Len(appended)
          /\ Reported => final_hash = global_hash_xor)
    /\ [][global_hash_xor' # global_hash_xor =>
             \/ opc = "idle"
             \/ \E c \in Consumers :
                   /\ hash_mutex = CThread(c) /\ cpc[c] = "hash_fold"
                   /\ cpc'[c] # "hash_fold"]_vars

\* the orchestrator is about to read a non-zero accumulator into which the
\* blocks of a 3-block file were folded
C21_Witness ==
    /\ opc = "report"
    /\ Len(appended) = 3
    /\ global_hash_xor # U64Zero

(***************************************************************************)
(* C22                                                                     *)
(***************************************************************************)
\* consumer c leaves the loop of process_buffers
ConsumerExits(c) == cpc[c] # "exited" /\ cpc'[c] = "exited"

\* no reader thread is running
NoReaderRunning == \A r \in Readers : rpc[r] \in {"unborn", "nothread", "exited"}

\* C22: a consumer leaves its loop only in the step in which it holds
\* queue->mutex and finds reading_done set, active_readers == 0 and count == 0;
\* so whenever a consumer has exited no reader is running, the readers have
\* been started, and no block is queued.
C22_ExitOnlyWhenDrained ==
    /\ [][\A c \in Consumers :
            ConsumerExits(c) =>
                /\ cpc[c] = "check" /\ mutex = CThread(c)
                /\ reading_done = 1 /\ active_readers = 0 /\ count = 0]_vars
    /\ [](\A c \in Consumers :
            cpc[c] = "exited" =>
                /\ NoReaderRunning /\ ReadersStarted
                /\ reading_done = 1 /\ active_readers = 0
                /\ count = 0 /\ nodes = <<>>)

\* one consumer has exited while another is still hashing the last block
C22_Witness ==
    \E c, d \in Consumers :
        /\ cpc[c] = "exited"
        /\ cpc[d] \in {"hash_lock", "hash_fold"}

(***************************************************************************)
(* C23                                                                     *)
(***************************************************************************)
\* consumer c returns the empty result from dequeue_buffer
ReturnsEmpty(c) == cpc[c] = "deq_body" /\ cpc'[c] \in {"deq_repost", "check_lock"}

\* C23: dequeue_buffer returns the empty result only when every reader has
\* exited and no block is queued, and no consumer goes on returning from
\* dequeue_buffer empty-handed for ever: from some point on no consumer is on
\* the path that posts full_slots again and tries once more.
C23_NoBusyWait ==
    /\ [][\A c \in Consumers : ReturnsEmpty(c) => NoReaderRunning /\ nodes = <<>>]_vars
    /\ <>[](\A c \in Consumers : cpc[c] # "deq_repost")

(***************************************************************************)
(* C24                                                                     *)
(***************************************************************************)
\* the orchestrator has posted full_slots at least once after joining the readers
DrainPostsBegun ==
    \/ opc \in {"join_consumers", "report", "cleanup", "done"}
    \/ opc = "wake" /\ oi > 1

\* units of full_slots taken by a dequeue_buffer call that has not yet looked
\* at the queue, or that is about to post the unit back
TokensHeld ==
    Cardinality({c \in Consumers : cpc[c] \in {"deq_lock", "deq_body", "deq_repost"}})

\* nodes linked by an enqueue_buffer call that has not yet posted full_slots
PostsPending == Cardinality({r \in Readers : rpc[r] = "enq_post"})

\* the queue exists: init_buffer_queue has run and cleanup_buffer_queue has not
QueueLive == opc \notin {"idle", "cleanup", "done"}

\* C24: the two semaphores move by one unit at a time, empty_slots down only in
\* enqueue_buffer's sem_wait and up only in the sem_post of a dequeue that
\* removed a node (or of an enqueue that failed), full_slots up only in the
\* sem_post of an enqueue that linked a node (or in the orchestrator's and the
\* empty dequeue's posts) and down only in dequeue_buffer's sem_wait; a
\* successful enqueue or dequeue changes them at no other step; hence
\* empty_slots + count + calls in flight is MAX_QUEUE_SIZE, and until the
\* orchestrator posts, full_slots counts the linked nodes nobody has been told
\* about and never exceeds count.
C24_FlowControl ==
    /\ []CapacityConserved
    /\ [](~DrainPostsBegun =>
             /\ full_slots + TokensHeld + PostsPending = count
             /\ full_slots <= count)
    /\ [][QueueLive /\ QueueLive' =>
            /\ empty_slots' # empty_slots =>
                  /\ full_slots' = full_slots
                  /\ \/ /\ empty_slots' = empty_slots - 1
                        /\ \E r \in Readers : rpc[r] = "enq_wait" /\ rpc'[r] = "enq_lock"
                     \/ /\ empty_slots' = empty_slots + 1
                        /\ \/ \E c \in Consumers : cpc[c] = "deq_post" /\ cpc'[c] = "hash_lock"
                           \/ \E r \in Readers : ReturnsFailure(r)
            /\ full_slots' # full_slots =>
                  /\ empty_slots' = empty_slots
                  /\ \/ /\ full_slots' = full_slots + 1
                        /\ \/ \E r \in Readers : rpc[r] = "enq_post" /\ rpc'[r] # "enq_post"
                           \/ \E c \in Consumers : cpc[c] = "deq_repost" /\ cpc'[c] # "deq_repost"
                           \/ opc = "wake"
                     \/ /\ full_slots' = full_slots - 1
                        /\ \E c \in Consumers : cpc[c] = "deq_wait" /\ cpc'[c] = "deq_lock"
            /\ \A r \in Readers :
                  rpc'[r] # rpc[r] /\ rpc[r] \in {"enq_lock", "enq_body"} /\ rpc'[r] # "enq_fail_post"
                      => UNCHANGED <<empty_slots, full_slots>>
            /\ \A c \in Consumers :
                  cpc'[c] # cpc[c] /\ cpc[c] \in {"deq_lock", "deq_body"}
                      => UNCHANGED <<empty_slots, full_slots>>]_vars

\* a block has been removed and the queue is full again: one linked node is not
\* yet announced and one consumer holds a unit of full_slots
C24_Witness ==
    /\ ~DrainPostsBegun
    /\ Len(removed) >= 1
    /\ PostsPending = 1
    /\ TokensHeld = 1
    /\ count = MAX_QUEUE_SIZE

(***************************************************************************)
(* C25                                                                     *)
(***************************************************************************)
\* thread t is at a sem_wait, blocked or about to call it
AtSemWait(t) ==
    \/ \E r \in Readers : t = RThread(r) /\ rpc[r] = "enq_wait"
    \/ \E c \in Consumers : t = CThread(c) /\ cpc[c] = "deq_wait"

PipelineThreads ==
    {Orch} \cup {RThread(r) : r \in Readers} \cup {CThread(c) : c \in Consumers}

\* C25: a thread at sem_wait(&queue->empty_slots) or sem_wait(&queue->full_slots)
\* holds neither queue->mutex nor hash_mutex, and no thread holds both mutexes.
C25_NoLockAcrossWait ==
    \A t \in PipelineThreads :
        /\ AtSemWait(t) => mutex # t /\ hash_mutex # t
        /\ ~(mutex = t /\ hash_mutex = t)

\* a consumer is blocked on an empty queue while a reader is inside the queue's
\* critical section and the other consumer is inside the hash's
C25_Witness ==
    /\ \E c \in Consumers : cpc[c] = "deq_wait" /\ full_slots = 0
    /\ \E r \in Readers : mutex = RThread(r)
    /\ \E c \in Consumers : hash_mutex = CThread(c)

(***************************************************************************)
(* C26                                                                     *)
(***************************************************************************)
\* the block indices of the nodes linked in the queue, head first
QueuedIndices == [k \in DOMAIN nodes |-> nodes[k].idx]

\* C26: the blocks removed by dequeue_buffer are, in order, the first blocks
\* appended by enqueue_buffer, and the nodes still linked are the rest of the
\* appended blocks in the order of their appends: a block appended before
\* another one is removed before it.
C26_Fifo ==
    /\ Len(removed) <= Len(appended)
    /\ \A k \in DOMAIN removed : removed[k] = appended[k]
    /\ QueuedIndices = SubSeq(appended, Len(removed) + 1, Len(appended))
    /\ \A j, k \in DOMAIN appended :
          j < k /\ k \in DOMAIN removed => j \in DOMAIN removed

\* two blocks were appended against the order of their indices and both have
\* been removed, in the order of their appends
C26_Witness ==
    /\ Len(removed) >= 2
    /\ appended[1] > appended[2]
    /\ removed[1] > removed[2]

(***************************************************************************)
(* C27                                                                     *)
(***************************************************************************)
\* a step of the running consumer c
ConsumerSteps(c) == cpc[c] # "unborn" /\ cpc'[c] # cpc[c]

\* C27: a step of a consumer thread leaves next_block, total_blocks, file_size,
\* active_readers and reading_done unchanged, as well as the file, the readers
\* and the orchestrator; it changes only the queue's list and count, the two
\* semaphores, the two mutexes and the accumulator.
C27_ConsumerFrame ==
    [][\A c \in Consumers :
          ConsumerSteps(c) =>
              /\ UNCHANGED <<next_block, total_blocks, file_size>>
              /\ UNCHANGED <<active_readers, reading_done>>
              /\ UNCHANGED <<file, orchVars, readerVars, destroyed, outside>>]_vars

\* the consumers have removed and folded every block of a three-block file and
\* have exited, one of them after an empty dequeue
C27_Witness ==
    /\ AllConsumersExited
    /\ Len(removed) = 3
    /\ SumFolds(MaxFileSize) = 3
    /\ next_block >= total_blocks
    /\ full_slots < NUM_CONSUMERS

(***************************************************************************)
(* C28                                                                     *)
(***************************************************************************)
\* no thread created for the queue is running or blocked
NoWorkerLeft ==
    /\ \A r \in Readers : rpc[r] \in {"unborn", "nothread", "exited"}
    /\ \A c \in Consumers : cpc[c] \in {"unborn", "exited"}

\* C28: once cleanup_buffer_queue has destroyed the mutex and the semaphores,
\* no reader or consumer created for the queue is still running or blocked on
\* it, on every path out of async_sequential_read.
C28_CleanupAfterWorkers == destroyed => NoWorkerLeft

(***************************************************************************)
(* C29                                                                     *)
(***************************************************************************)
\* active_readers has been set to NUM_READERS for this run
ReadersCounted ==
    opc \in {"spawn_readers", "spawn_fail_lock", "spawn_fail_dec", "join_readers", "wake",
             "join_consumers", "report", "cleanup", "done", "crashed"}

\* the loop that creates the readers is over
SpawnLoopOver == ReadersCounted /\ opc \notin {"spawn_readers", "spawn_fail_lock", "spawn_fail_dec"}

\* reader r exists and has not yet decremented active_readers
NotYetDecremented(r) == rpc[r] \notin {"unborn", "nothread", "exited"}

\* reader r is still to be created, or its pthread_create has failed and the
\* orchestrator has not yet decremented active_readers for it
StillCounted(r) ==
    \/ rpc[r] = "unborn"
    \/ rpc[r] = "nothread" /\ oi = r /\ opc \in {"spawn_fail_lock", "spawn_fail_dec"}

\* C29: from the moment active_readers is set, it is the number of readers that
\* exist and have not decremented it plus the readers still to be accounted for
\* by the spawn loop, so that after the loop it is the number of spawned readers
\* that have not decremented; it stays within 0..NUM_READERS and never
\* increases; reading_done is never cleared; and reading_done = 1 implies
\* active_readers = 0 and that every reader has returned, so that no
\* enqueue_buffer call follows.
C29_CompletionSignals ==
    /\ [](ReadersCounted =>
             /\ active_readers =
                   Cardinality({r \in Readers : NotYetDecremented(r) \/ StillCounted(r)})
             /\ active_readers \in 0..NUM_READERS)
    /\ [](SpawnLoopOver =>
             active_readers = Cardinality({r \in Readers : NotYetDecremented(r)}))
    /\ [](reading_done = 1 =>
             /\ active_readers = 0
             /\ SpawnLoopOver
             /\ \A r \in Readers : rpc[r] \in {"nothread", "exited"})
    /\ [][/\ ReadersCounted => active_readers' <= active_readers
          /\ reading_done = 1 => reading_done' = 1
          /\ \A r \in Readers : rpc[r] \in {"nothread", "exited"} => rpc'[r] = rpc[r]]_vars

\* the last reader to leave has set reading_done after blocks went through the
\* queue, in a run in which the other reader could not be created
C29_Witness ==
    /\ reading_done = 1
    /\ Len(appended) >= 2
    /\ \E r \in Readers : rpc[r] = "nothread"
    /\ \E r \in Readers : rpc[r] = "exited"

====
